---- MODULE Spec2Model ----
(***************************************************************************)
(* The load-testing engine of the LoadTesting component                    *)
(* (src/frontend/components/LoadTesting.tsx): the profile functions, the   *)
(* run loop of runTest with its per-tick fan-out and join, the elapsed     *)
(* timer, stopTest, and the component state they share.                    *)
(*                                                                         *)
(* Time is a discrete wall clock, one unit = 1000 ms (Date.now()/1000).    *)
(* A step of the model is one synchronous block of JavaScript: everything  *)
(* a handler or a continuation does up to its next await.                  *)
(***************************************************************************)
EXTENDS Integers, Sequences, FiniteSets, TLC

\* ------------------------------------------------------------------ bounds
MaxRuns == 2
MaxNow == 2
MaxDuration == 2
MaxUsers == 2
MaxRampUp == 2
\* The longest duration for which the profile functions are tabulated.
ProfileMaxDuration == 45
\* The largest configuration of the runs with punctual requests.
PunctualMaxDuration == 3
PunctualMaxUsers == 5
\* The longest latency list whose statistics are tabulated.
MaxLatencies == 101

Runs == 1..MaxRuns
Durations == 1..MaxDuration
UserCounts == 1..MaxUsers

\* ---------------------------------------------------------------- numbers
\* One second of the tick period, in clock units (the 1000 of line 313).
Second == 1
\* JavaScript's NaN, as a value outside every range the model compares with.
NaN == -1000
\* A request of the current fan-out that has not settled yet.
Pending == -2
\* The value a failed request resolves to (return -1 of the catch block).
Failed == -1

Max2(a, b) == IF a >= b THEN a ELSE b
Min2(a, b) == IF a <= b THEN a ELSE b

\* Math.round(n / d) for n >= 0, d > 0.
Round(n, d) == (2 * n + d) \div (2 * d)

\* The sum of a list, by halves.
RECURSIVE Sum(_)
Sum(s) ==
    IF Len(s) = 0 THEN 0
    ELSE IF Len(s) = 1 THEN s[1]
    ELSE Sum(SubSeq(s, 1, Len(s) \div 2))
         + Sum(SubSeq(s, (Len(s) \div 2) + 1, Len(s)))

\* The place of s[i] in the sorted list: after the smaller elements and the
\* equal ones that come before it.
Rank(s, i) ==
    1 + Cardinality({j \in 1..Len(s) :
                        s[j] < s[i] \/ (s[j] = s[i] /\ j < i)})

\* A list left in the order of completion.
Unsorted(s) == s

\* [...xs].sort((a, b) => a - b)
SortAsc(s) ==
    LET rank == [i \in 1..Len(s) |-> Rank(s, i)]
    IN  [k \in 1..Len(s) |-> s[CHOOSE i \in 1..Len(s) : rank[i] = k]]

\* ---------------------------------------------------- binary64 arithmetic
\* JavaScript numbers are IEEE 754 binary64. A number x >= 0 is held as a
\* natural number N and a count of binary places: x = N / 2^scale, N written
\* in digits of base Base, least significant first. Each operation computes
\* the exact result and rounds it to Precision significant bits, to nearest,
\* ties to even. The operands of the model are far from the exponent range:
\* there is no overflow and no subnormal.
Precision == 53
\* The digits of N have DigitBits bits each.
DigitBits == 13
Base == 2 ^ DigitBits
\* The digits computed after the point by a division.
DivDigits == 6

Zero == [digits |-> <<>>, scale |-> 0]
One == [digits |-> <<1>>, scale |-> 0]

\* The number of bits of an integer 0 <= v < Base.
BitsOf(v) ==
    IF v = 0 THEN 0
    ELSE CHOOSE n \in 1..DigitBits : 2 ^ (n - 1) <= v /\ v < 2 ^ n

\* N without its leading zero digits.
Trim(ds) ==
    LET used == {i \in 1..Len(ds) : ds[i] # 0}
    IN  IF used = {} THEN <<>>
        ELSE SubSeq(ds, 1, CHOOSE i \in used : \A k \in used : k <= i)

\* The number of bits of N (ds trimmed).
BitLength(ds) ==
    IF ds = <<>> THEN 0
    ELSE DigitBits * (Len(ds) - 1) + BitsOf(ds[Len(ds)])

\* Bit j of N, bit 0 the least significant.
Bit(ds, j) ==
    LET i == (j \div DigitBits) + 1
    IN  IF i > Len(ds) THEN 0 ELSE (ds[i] \div (2 ^ (j % DigitBits))) % 2

\* N \div 2^k
ShiftRight(ds, k) ==
    LET q == k \div DigitBits
        r == k % DigitBits
    IN  Trim([i \in 1..(Len(ds) - q) |->
                 (ds[i + q] \div (2 ^ r))
                 + (IF i + q + 1 <= Len(ds)
                    THEN (ds[i + q + 1] % (2 ^ r)) * (2 ^ (DigitBits - r))
                    ELSE 0)])

\* N + 1
Increment(ds) ==
    LET open == {i \in 1..Len(ds) : ds[i] # Base - 1}
    IN  IF open = {}
        THEN [i \in 1..(Len(ds) + 1) |-> IF i = Len(ds) + 1 THEN 1 ELSE 0]
        ELSE LET p == CHOOSE i \in open : \A k \in open : i <= k
             IN  [i \in 1..Len(ds) |->
                     IF i < p THEN 0 ELSE IF i = p THEN ds[i] + 1 ELSE ds[i]]

\* An exact result x (sticky: it has non-zero bits beyond those of N)
\* rounded to Precision significant bits, to nearest, ties to even.
RoundBits(x) ==
    LET k == BitLength(x.digits) - Precision
    IN  IF k <= 0 THEN [digits |-> x.digits, scale |-> x.scale]
        ELSE LET kept == ShiftRight(x.digits, k)
                 low == x.sticky
                        \/ \E j \in 0..(k - 2) : Bit(x.digits, j) = 1
                 up == /\ Bit(x.digits, k - 1) = 1
                       /\ low \/ Bit(x.digits, k) = 1
             IN  [digits |-> IF up THEN Increment(kept) ELSE kept,
                  scale |-> x.scale - k]

\* Long division: k more digits of r / b in front of acc, and the remainder.
RECURSIVE LongDiv(_, _, _, _)
LongDiv(r, b, k, acc) ==
    IF k = 0 THEN [digits |-> acc, rem |-> r]
    ELSE LongDiv((r * Base) % b, b, k - 1, <<(r * Base) \div b>> \o acc)

\* a / b for integers 0 <= a < b * Base, 0 < b.
Quotient(a, b) ==
    LET d == LongDiv(a % b, b, DivDigits, <<>>)
    IN  RoundBits([digits |-> Trim(Append(d.digits, a \div b)),
                   scale |-> DigitBits * DivDigits,
                   sticky |-> d.rem # 0])

\* The digits of n * N + c, after those in acc.
RECURSIVE MulDigits(_, _, _, _)
MulDigits(ds, n, c, acc) ==
    IF ds = <<>> THEN IF c = 0 THEN acc ELSE Append(acc, c)
    ELSE LET v == n * Head(ds) + c
         IN  MulDigits(Tail(ds), n, v \div Base, Append(acc, v % Base))

\* n * x for an integer 0 <= n <= Base.
Times(n, x) ==
    IF n = 0 THEN Zero
    ELSE RoundBits([digits |-> MulDigits(x.digits, n, 0, <<>>),
                    scale |-> x.scale, sticky |-> FALSE])

\* Math.min(1, x)
MinOne(x) == IF BitLength(x.digits) > x.scale THEN One ELSE x

\* Math.floor(x), for 0 <= x < Base * Base.
Floor(x) ==
    LET ds == ShiftRight(x.digits, x.scale)
    IN  IF Len(ds) = 0 THEN 0
        ELSE IF Len(ds) = 1 THEN ds[1]
        ELSE ds[1] + Base * ds[2]

\* --------------------------------------------------------------- profiles
Profiles == {"fixed", "rampup", "spike", "stress", "custom"}

fixedUsers(t, d, max, ramp) == max

\* Math.max(1, Math.floor(max * Math.min(1, (t + 1) / ramp))) in binary64.
rampupFloor(t, max, ramp) ==
    Max2(1, Floor(Times(max, MinOne(Quotient(t + 1, ramp)))))

\* rampupFloor on the arguments the bounded runs use, computed once.
rampupSmall ==
    [t \in 0..MaxDuration, max \in 1..MaxUsers, ramp \in 1..MaxRampUp |->
        rampupFloor(t, max, ramp)]

rampupUsers(t, d, max, ramp) ==
    IF ramp <= 0 THEN max
    ELSE IF <<t, max, ramp>> \in DOMAIN rampupSmall
         THEN rampupSmall[t, max, ramp]
         ELSE rampupFloor(t, max, ramp)

\* A spike profile whose burst starts at the midpoint, not one tick before.
spikeAtMid(t, d, max, ramp) ==
    LET mid == Floor(Quotient(d, 2))
        spikeWindow == Max2(3, Floor(Times(d, Quotient(2, 10))))
    IN  IF t >= mid /\ t < mid + spikeWindow THEN max
        ELSE Max2(1, Floor(Times(max, Quotient(1, 10))))

\* The literals 0.2 and 0.1 are the binary64 numbers nearest to 2/10 and
\* 1/10: the correctly rounded quotients.
spikeUsers(t, d, max, ramp) ==
    LET mid == Floor(Quotient(d, 2))
        spikeWindow == Max2(3, Floor(Times(d, Quotient(2, 10))))
    IN  IF t >= mid - 1 /\ t < mid - 1 + spikeWindow THEN max
        ELSE Max2(1, Floor(Times(max, Quotient(1, 10))))

\* A stress profile whose stage index is not clamped to the last stage.
stressUnclamped(t, d, max, ramp) ==
    LET stages == 4
        stageLen == Floor(Quotient(d, stages))
    IN  IF stageLen = 0
        THEN IF t = 0 THEN NaN
             ELSE Max2(1, Floor(Times(max, Quotient(stages, stages))))
        ELSE LET stage == Floor(Quotient(t, stageLen))
             IN  Max2(1, Floor(Times(max, Quotient(stage + 1, stages))))

\* stageLen = 0 makes t / stageLen NaN at t = 0 and Infinity at t > 0, where
\* Math.min(stages - 1, Infinity) is stages - 1.
stressUsers(t, d, max, ramp) ==
    LET stages == 4
        stageLen == Floor(Quotient(d, stages))
    IN  IF stageLen = 0
        THEN IF t = 0 THEN NaN
             ELSE Max2(1, Floor(Times(max, Quotient(stages, stages))))
        ELSE LET stage == Min2(stages - 1, Floor(Quotient(t, stageLen)))
             IN  Max2(1, Floor(Times(max, Quotient(stage + 1, stages))))

\* A custom profile that ignores the ramp-up time.
customFlat(t, d, max, ramp) == max

customUsers(t, d, max, ramp) ==
    IF ramp <= 0 THEN max
    ELSE Max2(1, Floor(Times(max, MinOne(Quotient(t + 1, ramp)))))

getUsers(p, t, d, max, ramp) ==
    CASE p = "fixed" -> fixedUsers(t, d, max, ramp)
      [] p = "rampup" -> rampupUsers(t, d, max, ramp)
      [] p = "spike" -> spikeUsers(t, d, max, ramp)
      [] p = "stress" -> stressUsers(t, d, max, ramp)
      [] p = "custom" -> customUsers(t, d, max, ramp)

\* Array.from({ length: n }): ToLength maps NaN and negatives to 0.
ArrayLength(n) == IF n = NaN \/ n < 0 THEN 0 ELSE n

\* ------------------------------------------------ request materialization
\* A string the user types is the sequence of its UTF-16 code units; the
\* values of the select inputs and of the buttons are TLA+ strings.
\* "Authorization", "X-API-Key" and "Content-Type".
Authorization ==
    <<65, 117, 116, 104, 111, 114, 105, 122, 97, 116, 105, 111, 110>>
XApiKey == <<88, 45, 65, 80, 73, 45, 75, 101, 121>>
ContentType == <<67, 111, 110, 116, 101, 110, 116, 45, 84, 121, 112, 101>>
\* "Bearer ", "Basic " and "application/json".
BearerPrefix == <<66, 101, 97, 114, 101, 114, 32>>
BasicPrefix == <<66, 97, 115, 105, 99, 32>>
ApplicationJson ==
    <<97, 112, 112, 108, 105, 99, 97, 116, 105, 111, 110, 47, 106, 115, 111,
      110>>
\* "?", "&", "=" and "%".
QuestionMark == 63
Ampersand == 38
EqualsSign == 61
PercentSign == 37

\* The exception a call throws, as the value of the call: not a string.
Thrown == <<-1>>

\* The character of the base64 alphabet with index i.
Base64Char(i) ==
    IF i < 26 THEN 65 + i
    ELSE IF i < 52 THEN 97 + (i - 26)
    ELSE IF i < 62 THEN 48 + (i - 52)
    ELSE IF i = 62 THEN 43 ELSE 47

\* The base64 encoding of a sequence of bytes.
RECURSIVE Base64(_)
Base64(bs) ==
    IF Len(bs) = 0 THEN <<>>
    ELSE IF Len(bs) = 1
    THEN <<Base64Char(bs[1] \div 4), Base64Char((bs[1] % 4) * 16),
           EqualsSign, EqualsSign>>
    ELSE IF Len(bs) = 2
    THEN <<Base64Char(bs[1] \div 4),
           Base64Char((bs[1] % 4) * 16 + (bs[2] \div 16)),
           Base64Char((bs[2] % 16) * 4), EqualsSign>>
    ELSE <<Base64Char(bs[1] \div 4),
           Base64Char((bs[1] % 4) * 16 + (bs[2] \div 16)),
           Base64Char((bs[2] % 16) * 4 + (bs[3] \div 64)),
           Base64Char(bs[3] % 64)>> \o Base64(SubSeq(bs, 4, Len(bs)))

\* btoa(s): InvalidCharacterError when a code unit is above 255.
btoa(s) ==
    IF \E i \in 1..Len(s) : s[i] > 255 THEN Thrown ELSE Base64(s)

\* A hexadecimal digit, upper case.
HexDigit(d) == IF d < 10 THEN 48 + d ELSE 65 + (d - 10)

\* %XX of a byte.
PercentByte(b) == <<PercentSign, HexDigit(b \div 16), HexDigit(b % 16)>>

\* A-Z a-z 0-9 - _ . ! ~ * ' ( ): what encodeURIComponent leaves as it is.
Unreserved(c) ==
    \/ c \in 65..90 \/ c \in 97..122 \/ c \in 48..57
    \/ c \in {45, 95, 46, 33, 126, 42, 39, 40, 41}

\* The UTF-8 bytes of a code point, each percent-encoded.
PercentUtf8(cp) ==
    IF cp < 128 THEN PercentByte(cp)
    ELSE IF cp < 2048
    THEN PercentByte(192 + (cp \div 64)) \o PercentByte(128 + (cp % 64))
    ELSE IF cp < 65536
    THEN PercentByte(224 + (cp \div 4096))
         \o PercentByte(128 + ((cp \div 64) % 64))
         \o PercentByte(128 + (cp % 64))
    ELSE PercentByte(240 + (cp \div 262144))
         \o PercentByte(128 + ((cp \div 4096) % 64))
         \o PercentByte(128 + ((cp \div 64) % 64))
         \o PercentByte(128 + (cp % 64))

HighSurrogate(c) == c \in 55296..56319
LowSurrogate(c) == c \in 56320..57343

\* encodeURIComponent(s): URIError on a surrogate without its pair.
RECURSIVE encodeURIComponent(_)
encodeURIComponent(s) ==
    IF Len(s) = 0 THEN <<>>
    ELSE LET c == s[1]
             pair == HighSurrogate(c) /\ Len(s) >= 2 /\ LowSurrogate(s[2])
             rest == encodeURIComponent(
                         SubSeq(s, IF pair THEN 3 ELSE 2, Len(s)))
         IN  IF (HighSurrogate(c) \/ LowSurrogate(c)) /\ ~pair THEN Thrown
             ELSE IF rest = Thrown THEN Thrown
             ELSE IF Unreserved(c) THEN <<c>> \o rest
             ELSE IF pair
             THEN PercentUtf8(65536 + (c - 55296) * 1024 + (s[2] - 56320))
                  \o rest
             ELSE PercentUtf8(c) \o rest

\* pairs.filter((p) => p.enabled && p.key)
ActivePairs(pairs) == SelectSeq(pairs, LAMBDA p : p.enabled /\ p.key # <<>>)

\* The query string of the pairs ps from the i-th on, joined with "&".
RECURSIVE JoinPairs(_, _)
JoinPairs(ps, i) ==
    IF i > Len(ps) THEN <<>>
    ELSE LET k == encodeURIComponent(ps[i].key)
             v == encodeURIComponent(ps[i].value)
             rest == JoinPairs(ps, i + 1)
         IN  IF k = Thrown \/ v = Thrown \/ rest = Thrown THEN Thrown
             ELSE (IF i > 1 THEN <<Ampersand>> ELSE <<>>)
                  \o k \o <<EqualsSign>> \o v \o rest

\* buildUrl() on the request definition req.
buildUrl(req) ==
    LET active == ActivePairs(req.params)
        sep == IF \E i \in 1..Len(req.url) : req.url[i] = QuestionMark
               THEN Ampersand ELSE QuestionMark
        query == JoinPairs(active, 1)
    IN  IF Len(active) = 0 THEN req.url
        ELSE IF query = Thrown THEN Thrown
        ELSE req.url \o <<sep>> \o query

\* h after h[p.key] = p.value for the pairs ps from the i-th on.
RECURSIVE SetPairs(_, _, _)
SetPairs(h, ps, i) ==
    IF i > Len(ps) THEN h
    ELSE SetPairs([k \in DOMAIN h \cup {ps[i].key} |->
                      IF k = ps[i].key THEN ps[i].value ELSE h[k]],
                  ps, i + 1)

\* h after h[key] = value.
SetHeader(h, key, value) ==
    [k \in DOMAIN h \cup {key} |-> IF k = key THEN value ELSE h[k]]

\* The auth strategy of req calls btoa and btoa throws.
AuthThrows(req) ==
    req.authType = "basic" /\ req.authToken # <<>>
        /\ btoa(req.authToken) = Thrown

\* The header object h after the auth strategy of req (btoa not throwing).
WithAuth(h, req) ==
    IF req.authType = "bearer" /\ req.authToken # <<>>
    THEN SetHeader(h, Authorization, BearerPrefix \o req.authToken)
    ELSE IF req.authType = "basic" /\ req.authToken # <<>>
    THEN SetHeader(h, Authorization, BasicPrefix \o btoa(req.authToken))
    ELSE IF req.authType = "apikey" /\ req.authToken # <<>>
    THEN SetHeader(h, XApiKey, req.authToken)
    ELSE h

\* h["Content-Type"] = h["Content-Type"] || "application/json"
WithContentType(h) ==
    IF ContentType \in DOMAIN h /\ h[ContentType] # <<>> THEN h
    ELSE SetHeader(h, ContentType, ApplicationJson)

\* A request that carries a body whatever its method.
MayHaveBodyAlways(method) == TRUE

\* method !== "GET" && method !== "HEAD"
MayHaveBody(method) == method # "GET" /\ method # "HEAD"

\* const h = {}: an object without a key. It is also what the model holds
\* for opts.headers when the property is not set: an object that is set has
\* a key.
NoHeaders == [k \in {} |-> <<>>]

\* opts.body: not set, a string, or new FormData() to which no field is
\* appended.
NoBody == [kind |-> "none"]
TextBody(text) == [kind |-> "text", text |-> text]
EmptyFormData == [kind |-> "formdata", fields |-> <<>>]

\* The failed call of buildFetchOptions.
ThrownOptions == [kind |-> "thrown"]

\* buildFetchOptions() on the request definition req. opts.headers is set
\* to the object h, when h has a key at that moment; what is written to h
\* later is seen through opts.headers only then.
buildFetchOptions(req) ==
    LET h0 == SetPairs(NoHeaders, ActivePairs(req.headers), 1)
        h1 == WithAuth(h0, req)
        attached == DOMAIN h1 # {}
        json == req.bodyType = "json" /\ req.bodyContent # <<>>
        raw == req.bodyType = "raw" /\ req.bodyContent # <<>>
        hasBody == MayHaveBody(req.method)
        h2 == IF hasBody /\ json THEN WithContentType(h1) ELSE h1
    IN  IF AuthThrows(req) THEN ThrownOptions
        ELSE [method |-> req.method,
              mode |-> "no-cors",
              headers |-> IF attached THEN h2 ELSE NoHeaders,
              body |-> IF hasBody /\ (json \/ raw)
                       THEN TextBody(req.bodyContent)
                       ELSE IF hasBody /\ req.bodyType = "formdata"
                       THEN EmptyFormData
                       ELSE NoBody]

\* ------------------------------------------------------------------ state
VARIABLES
    duration, concurrentUsers, rampUp, testProfile,  \* config (useState)
    isRunning, metrics, summary, elapsed,            \* run display (useState)
    cancelRef, intervalRef,                          \* useRef
    mounted,                                         \* the component is mounted
    now,                                             \* the wall clock
    run,                                             \* one runTest call each
    timer,                                           \* the setInterval timers
    nextRun,                                         \* the next runTest call
    hist,                                            \* history, per run
    request                                          \* request (useState)

config == <<duration, concurrentUsers, rampUp, testProfile, request>>
vars == <<duration, concurrentUsers, rampUp, testProfile, isRunning, metrics,
          summary, elapsed, cancelRef, intervalRef, mounted, now, run, timer,
          nextRun, hist, request>>

\* { key: "", value: "", enabled: true }: the row of an empty editor.
EmptyPair == [key |-> <<>>, value |-> <<>>, enabled |-> TRUE]

\* The request definition of a page just mounted (lines 157-177); the url is
\* "https://jsonplaceholder.typicode.com/posts/1".
DefaultRequest ==
    [url |-> <<104, 116, 116, 112, 115, 58, 47, 47, 106, 115, 111, 110, 112,
               108, 97, 99, 101, 104, 111, 108, 100, 101, 114, 46, 116, 121,
               112, 105, 99, 111, 100, 101, 46, 99, 111, 109, 47, 112, 111,
               115, 116, 115, 47, 49>>,
     method |-> "GET",
     headers |-> <<EmptyPair>>,
     params |-> <<EmptyPair>>,
     bodyContent |-> <<>>,
     bodyType |-> "json",
     authType |-> "none",
     authToken |-> <<>>]

\* fetchOpts before buildFetchOptions has been called.
NoOptions == [kind |-> "unset"]

\* summary === null
NoSummary == [null |-> TRUE]
\* intervalRef.current === null
NoInterval == 0

\* A runTest call that has not been made yet.
IdleRun ==
    [pc |-> "idle", t |-> 0, duration |-> 0, maxUsers |-> 0, rampUp |-> 0,
     profile |-> "fixed", startTime |-> 0, tickStart |-> 0, activeUsers |-> 0,
     results |-> <<>>, allTimes |-> <<>>, totalReqs |-> 0, errors |-> 0,
     wakeAt |-> 0, fetchUrl |-> <<>>, fetchOpts |-> NoOptions]

\* History of a run: the ticks it fanned out, for each sample it appended the
\* number of requests that had settled, the number of its requests that
\* threw, the summaries it wrote, whether the user pressed Stop during it,
\* whether stopTest was called during it, the request definition when it
\* started, and the urls and options its fetch calls were given.
NoHist ==
    [ticks |-> <<>>, joined |-> <<>>, failed |-> 0, summaries |-> 0,
     userStop |-> FALSE, cancelReq |-> FALSE, definition |-> <<>>,
     sent |-> {}]

Active(rn) == rn.pc \in {"join", "sleep"}

\* A state setter of a component: ignored once the component is unmounted.
SetState(old, new) == IF mounted THEN new ELSE old

\* ------------------------------------------------------------- statistics
\* Math.floor(n * 0.95) and Math.floor(n * 0.99) in binary64, pct being 95
\* or 99: the literals are the binary64 numbers nearest to 95/100 and
\* 99/100, the correctly rounded quotients.
percentileFloor(n, pct) == Floor(Times(n, Quotient(pct, 100)))

\* The longest latency list of the bounded runs.
RunLatencies ==
    Max2(MaxUsers * MaxDuration, PunctualMaxUsers * PunctualMaxDuration)

\* percentileFloor on the lengths the bounded runs reach, computed once.
percentileSmall ==
    [n \in 1..RunLatencies, pct \in {95, 99} |-> percentileFloor(n, pct)]

PercentileIndex(n, pct) ==
    IF <<n, pct>> \in DOMAIN percentileSmall THEN percentileSmall[n, pct]
    ELSE percentileFloor(n, pct)

\* A percentile counted from the top of the list: the index
\* floor(n * (100 - pct) / 100).
PercentileFromTop(sorted, pct) ==
    IF Len(sorted) > 0
    THEN sorted[((Len(sorted) * (100 - pct)) \div 100) + 1] ELSE 0

\* sorted.length ? sorted[Math.floor(sorted.length * pct / 100)] : 0, the
\* index of the model counted from 1.
Percentile(sorted, pct) ==
    IF Len(sorted) > 0 THEN sorted[PercentileIndex(Len(sorted), pct) + 1]
    ELSE 0

\* results.filter((r) => r > 0)
Valid(results) == SelectSeq(results, LAMBDA x : x > 0)

\* The MetricPoint of the tick just joined (rps and errorRate in hundredths).
Sample(rn) ==
    LET valid == Valid(rn.results)
        sorted == SortAsc(valid)
        total == rn.totalReqs
    IN  [time |-> rn.t + 1,
         avgResponseTime |->
             IF Len(valid) > 0 THEN Round(Sum(valid), Len(valid)) ELSE 0,
         p95 |-> Percentile(sorted, 95),
         p99 |-> Percentile(sorted, 99),
         rps |-> Round(total * 100, rn.t + 1),
         errorRate |->
             IF total > 0 THEN Round(rn.errors * 10000, total) ELSE 0,
         activeUsers |-> rn.activeUsers]

\* A summary whose rps divides by the ticks executed (rn.t is the last).
SummariseElapsed(rn) ==
    LET sortedAll == SortAsc(rn.allTimes)
        n == Len(sortedAll)
    IN  [totalRequests |-> rn.totalReqs,
         successCount |-> rn.totalReqs - rn.errors,
         errorCount |-> rn.errors,
         avgResponseTime |-> IF n > 0 THEN Round(Sum(sortedAll), n) ELSE 0,
         minResponseTime |-> IF n > 0 THEN sortedAll[1] ELSE 0,
         maxResponseTime |-> IF n > 0 THEN sortedAll[n] ELSE 0,
         p95 |-> Percentile(sortedAll, 95),
         p99 |-> Percentile(sortedAll, 99),
         rps |-> Round(rn.totalReqs * 100, rn.t + 1)]

\* The TestSummary written at loop exit (rps in hundredths).
Summarise(rn) ==
    LET sortedAll == SortAsc(rn.allTimes)
        n == Len(sortedAll)
    IN  [totalRequests |-> rn.totalReqs,
         successCount |-> rn.totalReqs - rn.errors,
         errorCount |-> rn.errors,
         avgResponseTime |-> IF n > 0 THEN Round(Sum(sortedAll), n) ELSE 0,
         minResponseTime |-> IF n > 0 THEN sortedAll[1] ELSE 0,
         maxResponseTime |-> IF n > 0 THEN sortedAll[n] ELSE 0,
         p95 |-> Percentile(sortedAll, 95),
         p99 |-> Percentile(sortedAll, 99),
         rps |-> IF rn.duration > 0
                 THEN Round(rn.totalReqs * 100, rn.duration) ELSE 0]

\* ---------------------------------------------------------------- helpers
NoTimer == [live |-> FALSE, nextFire |-> 0]

\* if (intervalRef.current) clearInterval(intervalRef.current)
ClearInterval(tm, id) ==
    IF id \in Runs THEN [tm EXCEPT ![id] = NoTimer] ELSE tm

\* What stopTest leaves of the cancellation flag c, the timers tm and the
\* running flag, id being the interval handle.
stopTestState(c, tm, id, running) ==
    [cancelRef |-> TRUE,
     timer |-> ClearInterval(tm, id),
     isRunning |-> SetState(running, FALSE)]

\* stopTest, called with the timers, the interval handle and the running
\* flag as the calling block has left them.
stopTest(tm, id, running) ==
    LET s == stopTestState(cancelRef, tm, id, running)
    IN  /\ cancelRef' = s.cancelRef
        /\ timer' = s.timer
        /\ isRunning' = s.isRunning

\* History: stopTest was called while the runs active in rs were in progress.
MarkCancel(h, rs, user) ==
    [r \in Runs |->
        IF Active(rs[r])
        THEN [h[r] EXCEPT !.cancelReq = TRUE, !.userStop = @ \/ user]
        ELSE h[r]]

\* A join that resumes as soon as one request has settled (Promise.race).
JoinReadyAny(rn) == \E i \in 1..Len(rn.results) : rn.results[i] # Pending

\* A join that never resumes (a promise that is never resolved).
JoinReadyNever(rn) == FALSE

\* await Promise.all(promises) resumes: every request of the tick settled.
JoinReady(rn) == \A i \in 1..Len(rn.results) : rn.results[i] # Pending

\* A runTest that leaves the previous summary in place.
StaleSummary == summary

\* setSummary(null) of runTest.
ResetSummary == NoSummary

\* setMetrics([]) of runTest.
ResetMetrics == <<>>

\* cancelRef.current = false of runTest.
ResetCancel == FALSE

\* A runTest call that has returned: its locals are gone; the timer callback
\* it created still closes over startTime and duration.
DoneRun(rn) ==
    [IdleRun EXCEPT !.pc = "done", !.startTime = rn.startTime,
                    !.duration = rn.duration, !.maxUsers = rn.maxUsers,
                    !.rampUp = rn.rampUp, !.profile = rn.profile]

\* The number of requests of the current fan-out that have settled.
SettledCount(rn) ==
    Cardinality({i \in 1..Len(rn.results) : rn.results[i] # Pending})

\* Math.max(0, 1000 - (Date.now() - tickStart))
Wait(rn, clk) == Max2(0, Second - (clk - rn.tickStart))

\* The run suspended in the inter-tick setTimeout.
Sleeping(rn, clk) ==
    [rn EXCEPT !.pc = "sleep", !.wakeAt = clk + Wait(rn, clk),
               !.results = <<>>, !.tickStart = 0, !.activeUsers = 0]

\* History: run r appended the sample of a tick with rn.results as joined.
MarkJoin(h, r, rn) == [h EXCEPT ![r].joined = Append(@, SettledCount(rn))]

\* A fetch call that materializes the request definition of the moment.
TemplateRebuilt(rn) ==
    [url |-> buildUrl(request), opts |-> buildFetchOptions(request)]

\* fetch(fetchUrl, fetchOpts): what a request of the run is given.
Template(rn) == [url |-> rn.fetchUrl, opts |-> rn.fetchOpts]

\* The for loop of runTest from its condition at index t to the next await
\* or to the end of runTest. rn, m, c, tm, id, running, sm, h: the run, the
\* metrics, cancelRef, the timers, intervalRef, isRunning, the summary and
\* the history as the calling block has left them; clk: Date.now().
\* Promise.all of an empty fan-out resumes in the same block: the sample is
\* appended and, cancelRef being false here, the loop sleeps.
LoopFrom(r, t, rn, m, c, tm, id, running, sm, h, clk) ==
    IF t < rn.duration /\ ~c
    THEN LET n == getUsers(rn.profile, t, rn.duration, rn.maxUsers, rn.rampUp)
             rn2 == [rn EXCEPT !.pc = "join", !.t = t, !.activeUsers = n,
                               !.tickStart = clk, !.wakeAt = 0,
                               !.results =
                                   [i \in 1..ArrayLength(n) |-> Pending]]
             h2 == [h EXCEPT ![r].ticks = Append(@, t),
                             ![r].sent = IF ArrayLength(n) = 0 THEN @
                                         ELSE @ \cup {Template(rn)}]
         IN  /\ cancelRef' = c
             /\ timer' = tm
             /\ isRunning' = running
             /\ summary' = sm
             /\ IF ArrayLength(n) = 0
                THEN /\ run' = [run EXCEPT ![r] = Sleeping(rn2, clk)]
                     /\ metrics' = SetState(m, Append(m, Sample(rn2)))
                     /\ hist' = MarkJoin(h2, r, rn2)
                ELSE /\ run' = [run EXCEPT ![r] = rn2]
                     /\ metrics' = m
                     /\ hist' = h2
    ELSE LET rs == [run EXCEPT ![r] = DoneRun(rn)]
         IN  /\ run' = rs
             /\ metrics' = m
             /\ summary' = SetState(sm, Summarise(rn))
             /\ stopTest(tm, id, running)
             /\ hist' = MarkCancel([h EXCEPT ![r].summaries = @ + 1], rs, FALSE)

\* The continuation of await Promise.all: the sample, then the sleep or the
\* next iteration. rn: the run with the last result of the tick in place;
\* h1: the history with that result in place.
Join(r, rn, h1) ==
    LET m == SetState(metrics, Append(metrics, Sample(rn)))
        h == MarkJoin(h1, r, rn)
    IN  IF Wait(rn, now) > 0 /\ ~cancelRef
        THEN /\ run' = [run EXCEPT ![r] = Sleeping(rn, now)]
             /\ metrics' = m
             /\ hist' = h
             /\ UNCHANGED <<cancelRef, timer, isRunning, summary>>
        ELSE LoopFrom(r, rn.t + 1,
                      [rn EXCEPT !.results = <<>>, !.tickStart = 0,
                                 !.activeUsers = 0],
                      m, cancelRef, timer, intervalRef, isRunning, summary, h,
                      now)

\* No run loop is in progress and no timer is live: nothing reads the clock
\* until the next runTest, and the clock is read only in differences, so the
\* model counts the seconds from the start of the current busy period.
Quiet == \A r \in Runs : ~Active(run[r]) /\ ~timer[r].live

\* A catch block that records a latency for the request that threw.
ThrowTimed(rn, i) ==
    [rn EXCEPT !.results[i] = Failed, !.allTimes = Append(@, 0),
               !.errors = @ + 1, !.totalReqs = @ + 1]

\* A catch block that counts the error but not the request.
ThrowUncounted(rn, i) ==
    [rn EXCEPT !.results[i] = Failed, !.errors = @ + 1]

\* The catch block of a request: errors++; totalReqs++; return -1.
Throw(rn, i) ==
    [rn EXCEPT !.results[i] = Failed, !.errors = @ + 1, !.totalReqs = @ + 1]

\* The try block of a request after the fetch has resolved, dur after
\* tickStart: allTimes.push(dur); totalReqs++; return dur.
Resolve(rn, i, dur) ==
    [rn EXCEPT !.results[i] = dur, !.allTimes = Append(@, dur),
               !.totalReqs = @ + 1]

\* History: a request of run r threw.
MarkFailed(h, r) == [h EXCEPT ![r].failed = @ + 1]

\* A runTest call that buildUrl or buildFetchOptions ended with an
\* exception: nothing after line 255 is executed.
Aborted == [IdleRun EXCEPT !.pc = "aborted"]

\* ---------------------------------------------------------------- actions
\* The Run Test button: runTest up to its first await, or up to the exception
\* of buildUrl or buildFetchOptions.
RunTest ==
    /\ mounted /\ ~isRunning /\ nextRun <= MaxRuns
    /\ now' = IF Quiet THEN 0 ELSE now
    /\ LET r == nextRun
           fetchUrl == buildUrl(request)
           fetchOpts == buildFetchOptions(request)
           rn == [IdleRun EXCEPT !.duration = duration,
                                 !.maxUsers = concurrentUsers,
                                 !.rampUp = rampUp, !.profile = testProfile,
                                 !.startTime = now', !.fetchUrl = fetchUrl,
                                 !.fetchOpts = fetchOpts]
           tm == [timer EXCEPT ![r] = [live |-> TRUE, nextFire |-> now' + Second]]
           h == [hist EXCEPT ![r].definition = request]
       IN  /\ elapsed' = 0
           /\ nextRun' = r + 1
           /\ IF fetchUrl = Thrown \/ fetchOpts = ThrownOptions
              THEN /\ cancelRef' = ResetCancel
                   /\ isRunning' = TRUE
                   /\ metrics' = ResetMetrics
                   /\ summary' = ResetSummary
                   /\ run' = [run EXCEPT ![r] = Aborted]
                   /\ hist' = h
                   /\ UNCHANGED <<intervalRef, timer>>
              ELSE /\ intervalRef' = r
                   /\ LoopFrom(r, 0, rn, ResetMetrics, ResetCancel, tm, r,
                               TRUE, ResetSummary, h, now')
    /\ UNCHANGED <<config, mounted>>

\* One fetch of the current fan-out settles: it resolves (ok) or throws.
\* When it is the last of the tick, Promise.all resolves and the loop resumes
\* in the same block (promise continuations run before any other event).
Settle(r, i, ok) ==
    LET rn == run[r]
        dur == now - rn.tickStart
        rn2 == IF ok THEN Resolve(rn, i, dur) ELSE Throw(rn, i)
        h == IF ok THEN hist ELSE MarkFailed(hist, r)
    IN  /\ rn.pc = "join"
        /\ i \in 1..Len(rn.results)
        /\ rn.results[i] = Pending
        /\ IF JoinReady(rn2)
           THEN Join(r, rn2, h)
           ELSE /\ run' = [run EXCEPT ![r] = rn2]
                /\ hist' = h
                /\ UNCHANGED <<isRunning, metrics, summary, cancelRef, timer>>
        /\ UNCHANGED <<config, elapsed, intervalRef, mounted, now, nextRun>>

\* The inter-tick setTimeout of run r is due.
WakeReady(r) == run[r].pc = "sleep" /\ now >= run[r].wakeAt

\* The continuation of the inter-tick setTimeout.
Wake(r) ==
    LET rn == run[r]
    IN  /\ WakeReady(r)
        /\ LoopFrom(r, rn.t + 1, [rn EXCEPT !.wakeAt = 0], metrics, cancelRef,
                    timer, intervalRef, isRunning, summary, hist, now)
        /\ UNCHANGED <<config, elapsed, intervalRef, mounted, now, nextRun>>

\* The setInterval callback of run r.
TimerFire(r) ==
    LET tm == [timer EXCEPT ![r].nextFire = now + Second]
        sec == now - run[r].startTime
    IN  /\ timer[r].live
        /\ now >= timer[r].nextFire
        /\ IF cancelRef
           THEN /\ timer' = tm
                /\ UNCHANGED <<elapsed, cancelRef, isRunning, hist>>
           ELSE /\ elapsed' = SetState(elapsed, sec)
                /\ IF sec >= run[r].duration
                   THEN /\ stopTest(tm, intervalRef, isRunning)
                        /\ hist' = MarkCancel(hist, run, FALSE)
                   ELSE /\ timer' = tm
                        /\ UNCHANGED <<cancelRef, isRunning, hist>>
        /\ UNCHANGED <<config, metrics, summary, intervalRef, mounted, now,
                       run, nextRun>>

\* The Stop Test button.
StopClick ==
    /\ mounted /\ isRunning
    /\ stopTest(timer, intervalRef, isRunning)
    /\ hist' = MarkCancel(hist, run, TRUE)
    /\ UNCHANGED <<config, metrics, summary, elapsed, intervalRef, mounted,
                   now, run, nextRun>>

\* The effect cleanup at unmount.
Unmount ==
    /\ mounted
    /\ mounted' = FALSE
    /\ cancelRef' = TRUE
    /\ timer' = ClearInterval(timer, intervalRef)
    /\ UNCHANGED <<config, isRunning, metrics, summary, elapsed, intervalRef,
                   now, run, nextRun, hist>>

\* A continuation that is ready to run, or a timer that is due: JavaScript
\* runs it before the clock moves on.
Urgent(r) ==
    \/ WakeReady(r)
    \/ timer[r].live /\ now >= timer[r].nextFire

\* One second passes, up to the last second of the clock.
AdvanceTo(last) ==
    /\ now < last
    /\ \E r \in Runs : Active(run[r]) \/ timer[r].live
    /\ \A r \in Runs : ~Urgent(r)
    /\ now' = now + 1
    /\ UNCHANGED <<config, isRunning, metrics, summary, elapsed, cancelRef,
                   intervalRef, mounted, run, timer, nextRun, hist>>

Advance == AdvanceTo(MaxNow)

\* ---------------------------------------------------------- specification
\* The configuration is chosen before the first run (the sliders and the
\* profile buttons) and is an input of the model. The profiles it selects
\* among:
RunProfiles == {"fixed", "rampup"}

Init ==
    /\ duration \in Durations
    /\ concurrentUsers \in UserCounts
    /\ testProfile \in RunProfiles
    /\ rampUp = MaxRampUp
    /\ isRunning = FALSE
    /\ metrics = <<>>
    /\ summary = NoSummary
    /\ elapsed = 0
    /\ cancelRef = FALSE
    /\ intervalRef = NoInterval
    /\ mounted = TRUE
    /\ now = 0
    /\ run = [r \in Runs |-> IdleRun]
    /\ timer = [r \in Runs |-> NoTimer]
    /\ nextRun = 1
    /\ hist = [r \in Runs |-> NoHist]
    /\ request = DefaultRequest

Next ==
    \/ RunTest
    \/ \E r \in Runs : \E i \in UserCounts : \E ok \in BOOLEAN : Settle(r, i, ok)
    \/ \E r \in Runs : Wake(r)
    \/ \E r \in Runs : TimerFire(r)
    \/ StopClick
    \/ Advance

Spec == Init /\ [][Next]_vars

\* The same with the component unmounted at any moment.
NextUnmount == Next \/ Unmount

SpecUnmount == Init /\ [][NextUnmount]_vars

\* A configuration with duration < 1 or target concurrency < 1: runTest as
\* an operation on any configuration (the sliders of the page start at 5 s
\* and 1 user; runTest itself reads whatever the state holds).
InitInvalid ==
    /\ duration \in 0..MaxDuration
    /\ concurrentUsers \in 0..MaxUsers
    /\ duration < 1 \/ concurrentUsers < 1
    /\ testProfile \in RunProfiles
    /\ rampUp = MaxRampUp
    /\ isRunning = FALSE
    /\ metrics = <<>>
    /\ summary = NoSummary
    /\ elapsed = 0
    /\ cancelRef = FALSE
    /\ intervalRef = NoInterval
    /\ mounted = TRUE
    /\ now = 0
    /\ run = [r \in Runs |-> IdleRun]
    /\ timer = [r \in Runs |-> NoTimer]
    /\ nextRun = 1
    /\ hist = [r \in Runs |-> NoHist]
    /\ request = DefaultRequest

SpecInvalid == InitInvalid /\ [][Next]_vars

\* The event loop runs a due timer callback and a due setTimeout continuation,
\* the clock moves on, and every request that is in flight settles.
Fairness ==
    /\ WF_vars(\E r \in Runs : Wake(r))
    /\ WF_vars(\E r \in Runs : TimerFire(r))
    /\ WF_vars(Advance)
    /\ WF_vars(\E r \in Runs : \E i \in UserCounts : \E ok \in BOOLEAN :
                  Settle(r, i, ok))

\* The fair behaviours explored: a second run is started only in the
\* configurations of one user per tick.
NextFair == Next /\ (concurrentUsers = 1 \/ nextRun' <= 2)

SpecFair == Init /\ [][NextFair]_vars /\ Fairness

\* ------------------------------------------------ punctual single runs
\* One run, never stopped by the user, every request of which settles (it
\* resolves or it throws) within the second in which it was issued; the
\* clock runs to the end of the run.
InitPunctual ==
    /\ duration \in 1..PunctualMaxDuration
    /\ concurrentUsers \in 1..PunctualMaxUsers
    /\ testProfile \in RunProfiles
    /\ rampUp = MaxRampUp
    /\ isRunning = FALSE
    /\ metrics = <<>>
    /\ summary = NoSummary
    /\ elapsed = 0
    /\ cancelRef = FALSE
    /\ intervalRef = NoInterval
    /\ mounted = TRUE
    /\ now = 0
    /\ run = [r \in Runs |-> IdleRun]
    /\ timer = [r \in Runs |-> NoTimer]
    /\ nextRun = 1
    /\ hist = [r \in Runs |-> NoHist]
    /\ request = DefaultRequest

NextPunctual ==
    \/ nextRun = 1 /\ RunTest
    \/ \E r \in Runs : \E i \in 1..PunctualMaxUsers : \E ok \in BOOLEAN :
           Settle(r, i, ok)
    \/ \E r \in Runs : Wake(r)
    \/ \E r \in Runs : TimerFire(r)
    \/ (\A r \in Runs : run[r].pc # "join") /\ AdvanceTo(duration)

SpecPunctual == InitPunctual /\ [][NextPunctual]_vars

\* ------------------------------------------- the profile functions alone
\* The configurations for which the profile functions are tabulated: every
\* duration up to ProfileMaxDuration, and these user counts and ramp-ups.
ProfileDurations == 1..ProfileMaxDuration
ProfileUsers == {1, 2, 3, 5, 10, 22, 40, 90, 100}
ProfileRampUps == {0, 1, 2, 5, 10, 22}

InitProfile ==
    /\ duration \in ProfileDurations
    /\ concurrentUsers \in ProfileUsers
    /\ rampUp \in ProfileRampUps
    /\ testProfile \in Profiles
    /\ isRunning = FALSE
    /\ metrics = <<>>
    /\ summary = NoSummary
    /\ elapsed = 0
    /\ cancelRef = FALSE
    /\ intervalRef = NoInterval
    /\ mounted = TRUE
    /\ now = 0
    /\ run = [r \in Runs |-> IdleRun]
    /\ timer = [r \in Runs |-> NoTimer]
    /\ nextRun = 1
    /\ hist = [r \in Runs |-> NoHist]
    /\ request = DefaultRequest

\* activeProfile.getUsers(t, duration, concurrentUsers, rampUp) as the loop
\* calls it at tick t, with nothing else of the loop: the tick and the
\* result are kept in run[1]. One call for each behaviour.
GetUsers(t) ==
    /\ run[1].pc = "idle"
    /\ t \in 0..(duration - 1)
    /\ run' = [run EXCEPT ![1] =
                  [IdleRun EXCEPT
                      !.pc = "tick", !.t = t, !.duration = duration,
                      !.maxUsers = concurrentUsers, !.rampUp = rampUp,
                      !.profile = testProfile,
                      !.activeUsers = getUsers(testProfile, t, duration,
                                               concurrentUsers, rampUp)]]
    /\ UNCHANGED <<config, isRunning, metrics, summary, elapsed, cancelRef,
                   intervalRef, mounted, now, timer, nextRun, hist>>

NextProfile == \E t \in 0..(ProfileMaxDuration - 1) : GetUsers(t)

SpecProfile == InitProfile /\ [][NextProfile]_vars

\* -------------------------------------------- the materialization alone
\* The request definitions that are materialized. Strings: "https://a.io/x"
\* and the same with a query; "text/plain", "tok", "u:p", "1", "q", "a b",
\* "X-Id", "content-type"; the body "{}".
Methods == {"GET", "POST", "PUT", "PATCH", "DELETE", "OPTIONS", "HEAD"}
BodyTypes == {"json", "raw", "formdata"}
AuthTypes == {"none", "bearer", "basic", "apikey"}
PlainUrl == <<104, 116, 116, 112, 115, 58, 47, 47, 97, 46, 105, 111, 47, 120>>
QueryUrl == PlainUrl \o <<QuestionMark, 107, EqualsSign, 49>>
TextPlain == <<116, 101, 120, 116, 47, 112, 108, 97, 105, 110>>
Tok == <<116, 111, 107>>
UserPass == <<117, 58, 112>>
\* "é": a code unit that btoa accepts and encodeURIComponent encodes in two
\* bytes.
EAcute == <<233>>
\* The euro sign: a code unit above 255.
Euro == <<8364>>
\* A high surrogate that no low surrogate follows.
LoneSurrogate == <<55357>>
\* U+1F600 as its surrogate pair.
Emoji == <<55357, 56832>>
LowerContentType ==
    <<99, 111, 110, 116, 101, 110, 116, 45, 116, 121, 112, 101>>
XId == <<88, 45, 73, 100>>

Pair(k, v, on) == [key |-> k, value |-> v, enabled |-> on]

HeaderLists ==
    { <<EmptyPair>>,
      <<Pair(ContentType, TextPlain, TRUE)>>,
      <<Pair(LowerContentType, TextPlain, TRUE)>>,
      <<Pair(ContentType, <<>>, TRUE)>>,
      <<Pair(ContentType, TextPlain, FALSE)>>,
      <<Pair(XId, <<49>>, TRUE)>>,
      <<Pair(Authorization, Tok, TRUE), Pair(XApiKey, Tok, TRUE)>> }

ParamLists ==
    { <<EmptyPair>>,
      <<Pair(<<113>>, <<97, 32, 98>>, TRUE)>>,
      <<Pair(<<113>>, <<49>>, TRUE), Pair(EAcute, Emoji, TRUE),
        Pair(XId, Tok, FALSE)>>,
      <<Pair(<<113>>, LoneSurrogate, TRUE)>> }

Credentials == {<<>>, Tok, UserPass, EAcute, Euro}

RequestSpecs ==
    [url : {PlainUrl, QueryUrl},
     method : Methods,
     headers : HeaderLists,
     params : ParamLists,
     bodyContent : {<<>>, <<123, 125>>},
     bodyType : BodyTypes,
     authType : AuthTypes,
     authToken : Credentials]

InitMaterialize ==
    /\ duration = MaxDuration
    /\ concurrentUsers = MaxUsers
    /\ rampUp = MaxRampUp
    /\ testProfile = "fixed"
    /\ isRunning = FALSE
    /\ metrics = <<>>
    /\ summary = NoSummary
    /\ elapsed = 0
    /\ cancelRef = FALSE
    /\ intervalRef = NoInterval
    /\ mounted = TRUE
    /\ now = 0
    /\ run = [r \in Runs |-> IdleRun]
    /\ timer = [r \in Runs |-> NoTimer]
    /\ nextRun = 1
    /\ hist = [r \in Runs |-> NoHist]
    /\ request \in RequestSpecs

\* const fetchUrl = buildUrl(); const fetchOpts = buildFetchOptions(); as
\* runTest calls them, with nothing else of runTest: the results are kept in
\* run[1]. When buildUrl throws, buildFetchOptions is not called.
Materialize ==
    /\ run[1].pc = "idle"
    /\ LET fetchUrl == buildUrl(request)
       IN  run' = [run EXCEPT ![1] =
                      [IdleRun EXCEPT
                          !.pc = "built", !.fetchUrl = fetchUrl,
                          !.fetchOpts = IF fetchUrl = Thrown THEN NoOptions
                                        ELSE buildFetchOptions(request)]]
    /\ UNCHANGED <<config, isRunning, metrics, summary, elapsed, cancelRef,
                   intervalRef, mounted, now, timer, nextRun, hist>>

NextMaterialize == Materialize

SpecMaterialize == InitMaterialize /\ [][NextMaterialize]_vars

\* ------------------------------------------ runs of an edited definition
\* The definitions the user switches among: a POST with a json body, a
\* bearer token, a header and no parameter; the same url and method with a
\* raw body, an API key and a parameter; the same with Basic credentials that
\* btoa rejects; and a GET of another url.
EditSpecs ==
    { [url |-> PlainUrl, method |-> "POST",
       headers |-> <<Pair(XId, <<49>>, TRUE)>>, params |-> <<EmptyPair>>,
       bodyContent |-> <<123, 125>>, bodyType |-> "json",
       authType |-> "bearer", authToken |-> Tok],
      [url |-> PlainUrl, method |-> "POST",
       headers |-> <<EmptyPair>>,
       params |-> <<Pair(<<113>>, <<97, 32, 98>>, TRUE)>>,
       bodyContent |-> <<123, 125>>, bodyType |-> "raw",
       authType |-> "apikey", authToken |-> Tok],
      [url |-> PlainUrl, method |-> "POST",
       headers |-> <<EmptyPair>>, params |-> <<EmptyPair>>,
       bodyContent |-> <<>>, bodyType |-> "json",
       authType |-> "basic", authToken |-> Euro],
      [url |-> QueryUrl, method |-> "GET",
       headers |-> <<EmptyPair>>, params |-> <<EmptyPair>>,
       bodyContent |-> <<>>, bodyType |-> "json",
       authType |-> "none", authToken |-> <<>>] }

InitRequest ==
    /\ duration = MaxDuration
    /\ concurrentUsers = 1
    /\ rampUp = MaxRampUp
    /\ testProfile = "fixed"
    /\ isRunning = FALSE
    /\ metrics = <<>>
    /\ summary = NoSummary
    /\ elapsed = 0
    /\ cancelRef = FALSE
    /\ intervalRef = NoInterval
    /\ mounted = TRUE
    /\ now = 0
    /\ run = [r \in Runs |-> IdleRun]
    /\ timer = [r \in Runs |-> NoTimer]
    /\ nextRun = 1
    /\ hist = [r \in Runs |-> NoHist]
    /\ request \in EditSpecs

\* The user edits the request definition: the setters of the method select,
\* the url input and the request tabs. The select and the url input are
\* disabled while isRunning (lines 431 and 452); the request tabs are not.
Edit(new) ==
    /\ mounted
    /\ new # request
    /\ isRunning => (new.method = request.method /\ new.url = request.url)
    /\ request' = new
    /\ UNCHANGED <<duration, concurrentUsers, rampUp, testProfile, isRunning,
                   metrics, summary, elapsed, cancelRef, intervalRef, mounted,
                   now, run, timer, nextRun, hist>>

NextRequest ==
    \/ RunTest
    \/ \E r \in Runs : \E i \in UserCounts : \E ok \in BOOLEAN : Settle(r, i, ok)
    \/ \E r \in Runs : Wake(r)
    \/ \E r \in Runs : TimerFire(r)
    \/ StopClick
    \/ Advance
    \/ \E new \in EditSpecs : Edit(new)

SpecRequest == InitRequest /\ [][NextRequest]_vars

\* ------------------------------------------------- the statistics alone
\* The results of one tick of n requests, in the order of the fan-out:
\* latencies that rise, fall, are all equal, start at 0 ms, or fail for every
\* third request.
Shapes == {"up", "down", "flat", "zero", "failing"}

TickResults(n, shape) ==
    [i \in 1..n |->
        CASE shape = "up" -> 10 * i
          [] shape = "down" -> 10 * (n + 1 - i)
          [] shape = "flat" -> 7
          [] shape = "zero" -> i - 1
          [] shape = "failing" -> IF i % 3 = 0 THEN Failed ELSE 3 * i]

\* The single tick of a run of one second, all its requests settled: what
\* runTest holds when await Promise.all resumes.
TickRun(results) ==
    LET resolved == SelectSeq(results, LAMBDA x : x # Failed)
    IN  [IdleRun EXCEPT !.pc = "join", !.duration = 1, !.maxUsers = Len(results),
                        !.activeUsers = Len(results), !.results = results,
                        !.allTimes = resolved, !.totalReqs = Len(results),
                        !.errors = Len(results) - Len(resolved)]

InitStatistics ==
    /\ duration = 1
    /\ concurrentUsers \in 1..MaxLatencies
    /\ rampUp = MaxRampUp
    /\ testProfile = "fixed"
    /\ isRunning = TRUE
    /\ metrics = <<>>
    /\ summary = NoSummary
    /\ elapsed = 0
    /\ cancelRef = FALSE
    /\ intervalRef = NoInterval
    /\ mounted = TRUE
    /\ now = 0
    /\ \E shape \in Shapes :
           run = [r \in Runs |->
                     IF r = 1 THEN TickRun(TickResults(concurrentUsers, shape))
                     ELSE IdleRun]
    /\ timer = [r \in Runs |-> NoTimer]
    /\ nextRun = 2
    /\ hist = [r \in Runs |-> NoHist]
    /\ request = DefaultRequest

\* The sample of the tick and the summary of the run (lines 291-335) as
\* runTest computes them from these results, with nothing else of runTest.
Statistics ==
    /\ run[1].pc = "join"
    /\ metrics' = Append(metrics, Sample(run[1]))
    /\ summary' = Summarise(run[1])
    /\ run' = [run EXCEPT ![1].pc = "computed"]
    /\ UNCHANGED <<config, isRunning, elapsed, cancelRef, intervalRef,
                   mounted, now, timer, nextRun, hist>>

NextStatistics == Statistics

SpecStatistics == InitStatistics /\ [][NextStatistics]_vars

\* ------------------------------------------------------------- properties
Done(r) == run[r].pc = "done"

\* The fan-out size of tick t of run r.
Users(r, t) ==
    ArrayLength(getUsers(run[r].profile, t, run[r].duration, run[r].maxUsers,
                         run[r].rampUp))

\* Run r is the only run started so far.
OnlyRun(r) == \A q \in Runs \ {r} : run[q].pc = "idle"

\* <<0, 1, ..., d - 1>>
AllTicks(d) == [k \in 1..d |-> k - 1]

\* C1: a run that the user never cancels executes the ticks 0..duration-1
\* once each and appends exactly duration samples; the elapsed timer never
\* makes it skip a tick. Stated of a run that is the only one started, so
\* that no other run's stopTest is involved.
C1_UncancelledRunsEveryTick ==
    \A r \in Runs :
        (Done(r) /\ OnlyRun(r) /\ ~hist[r].userStop)
            => /\ hist[r].ticks = AllTicks(run[r].duration)
               /\ Len(hist[r].joined) = run[r].duration

\* C2: at most one run loop is active at any time.
C2_AtMostOneRunLoop == Cardinality({r \in Runs : Active(run[r])}) <= 1

\* C3: once stopTest has been called during a run, that run's loop never
\* starts another tick's fan-out, whatever happens later.
C3_NoFanOutAfterCancel ==
    [][\A r \in Runs :
          hist[r].cancelReq => hist'[r].ticks = hist[r].ticks]_vars

\* Run r's loop exits in this step.
LoopExit(r) == Active(run[r]) /\ run'[r].pc = "done"

\* Run r's timer callback runs in this step.
TimerStep(r) ==
    /\ timer[r].live /\ now >= timer[r].nextFire
    /\ run' = run /\ now' = now /\ timer'[r] # timer[r]

\* C4: neither the loop exit nor the timer callback of an earlier run sets
\* the cancellation flag, clears the timer or resets the running flag while a
\* run started later is in progress.
C4_NoCrossRunInterference ==
    [][\A r, q \in Runs :
          (r < q /\ Active(run[q]) /\ (LoopExit(r) \/ TimerStep(r)))
              => /\ cancelRef' = cancelRef
                 /\ timer'[q] = timer[q]
                 /\ isRunning' = isRunning]_vars

C6_SeriesStrictlyIncreasing ==
    \A k \in 1..Len(metrics) : metrics[k].time = k

\* C7: a run appends the sample of a tick only after all the activeUsers
\* requests of that tick have settled, one sample per joined tick; after a
\* cancel the samples are those of the fully joined ticks. While a single
\* run has been started, the series holds exactly these samples.
C7_SampleAfterFullJoin ==
    \A r \in Runs :
        /\ Len(hist[r].joined) <= Len(hist[r].ticks)
        /\ \A k \in 1..Len(hist[r].joined) :
               hist[r].joined[k] = Users(r, hist[r].ticks[k])
        /\ (OnlyRun(r) /\ run[r].pc # "idle")
               => /\ Len(metrics) = Len(hist[r].joined)
                  /\ \A k \in 1..Len(metrics) :
                         /\ metrics[k].time = hist[r].ticks[k] + 1
                         /\ metrics[k].activeUsers =
                                Users(r, hist[r].ticks[k])

\* A run stopped by the user during a fan-out of two requests, finished with
\* fewer samples than its duration.
C7_Witness ==
    \E r \in Runs :
        /\ Done(r) /\ hist[r].userStop /\ run[r].maxUsers = 2
        /\ Len(hist[r].joined) >= 1
        /\ Len(hist[r].joined) < run[r].duration

\* C8: once stopTest has been called, a loop suspended in a join or in the
\* sleep can resume at once: its exit waits neither for a request to settle
\* nor for the rest of the sleep.
C8_CancelPrompt ==
    \A r \in Runs : (hist[r].cancelReq /\ Active(run[r])) => WakeReady(r)

C10_NoSummaryWhileRunning == isRunning => summary = NoSummary

\* Running, with an earlier cancelled run's loop still in progress.
C10_Witness ==
    /\ isRunning
    /\ \E r, q \in Runs :
           /\ r < q /\ Active(run[r]) /\ hist[r].cancelReq /\ Active(run[q])

\* Run r sleeps until a second that lies beyond the last second of the clock.
BeyondClock(r) == run[r].pc = "sleep" /\ run[r].wakeAt > MaxNow

C12_SummaryCounts ==
    [][\A r \in Runs :
          LoopExit(r)
              => /\ summary' # NoSummary
                 /\ summary'.successCount + summary'.errorCount =
                        summary'.totalRequests
                 /\ summary'.successCount >= 0
                 /\ summary'.errorCount >= 0
                 /\ summary'.errorCount = hist'[r].failed
                 /\ summary'.totalRequests = Sum(hist'[r].joined)]_vars

\* The summary of a run cancelled by the user, with requests that threw and
\* requests that resolved.
C12_Witness ==
    /\ summary # NoSummary
    /\ summary.errorCount >= 1 /\ summary.successCount >= 2
    /\ \E r \in Runs : Done(r) /\ OnlyRun(r) /\ hist[r].userStop

\* C13: in every summary with totalRequests > 0 the rounded average lies
\* between the minimum and the maximum, whatever the mix of requests that
\* resolved and requests that threw.
C13_MinAvgMax ==
    (summary # NoSummary /\ summary.totalRequests > 0)
        => /\ summary.minResponseTime <= summary.avgResponseTime
           /\ summary.avgResponseTime <= summary.maxResponseTime

\* A summary over latencies that differ, completed out of order, with a
\* request that threw.
C13_Witness ==
    /\ summary # NoSummary
    /\ summary.errorCount >= 1
    /\ summary.minResponseTime < summary.avgResponseTime
    /\ summary.avgResponseTime < summary.maxResponseTime

\* A summary of a run all of whose requests threw.
AllFailedSummary ==
    /\ summary # NoSummary
    /\ summary.totalRequests >= 2
    /\ summary.errorCount = summary.totalRequests

\* stopTest called in the current state, and called once more after that.
StopOnce == stopTestState(cancelRef, timer, intervalRef, isRunning)
StopTwice ==
    stopTestState(StopOnce.cancelRef, StopOnce.timer, intervalRef,
                  StopOnce.isRunning)

\* C14: stopTest is idempotent: in every reachable state two calls in a row
\* leave what one call leaves; and a call made for a run that was already
\* cancelled (the call at the end of its loop) changes nothing observable:
\* the running flag stays as it is.
C14_StopIdempotent ==
    /\ [](StopTwice = StopOnce)
    /\ [][\A r \in Runs :
             (LoopExit(r) /\ hist[r].cancelReq) => isRunning' = isRunning]_vars

\* A request of run r throws in this step.
ThrowStep(r) == hist'[r].failed = hist[r].failed + 1

\* The requests of run r that are in flight.
InFlight(rn) == Len(rn.results) - SettledCount(rn)

\* C15: a request that throws ends nothing. The step in which it throws adds
\* one to the run's error counter and one to its total counter, adds no
\* latency, and issues no request in its place; when other requests of the
\* tick are in flight the loop keeps waiting for them, and when it was the
\* last one the tick is joined, its sample appended, and the loop goes on as
\* after any tick: it sleeps or fans out the next tick, and it ends only if
\* that was the last tick or a cancellation was requested.
C15_FailureContained ==
    [][\A r \in Runs :
          ThrowStep(r)
              => /\ IF InFlight(run[r]) > 1
                    THEN /\ run'[r].pc = "join" /\ run'[r].t = run[r].t
                         /\ InFlight(run'[r]) = InFlight(run[r]) - 1
                         /\ hist'[r].joined = hist[r].joined
                         /\ <<isRunning, cancelRef, summary, metrics>>' =
                                <<isRunning, cancelRef, summary, metrics>>
                    ELSE /\ Len(hist'[r].joined) = Len(hist[r].joined) + 1
                         /\ Len(metrics') = Len(metrics) + 1
                         /\ LoopExit(r)
                                => (run[r].t + 1 >= run[r].duration \/ cancelRef)
                         /\ cancelRef => LoopExit(r)
                         /\ ~LoopExit(r)
                                => \/ run'[r].pc = "sleep" /\ run'[r].t = run[r].t
                                   \/ /\ run'[r].pc = "join"
                                      /\ run'[r].t = run[r].t + 1
                 /\ IF LoopExit(r)
                    THEN /\ summary'.errorCount = run[r].errors + 1
                         /\ summary'.totalRequests = run[r].totalReqs + 1
                         /\ summary'.successCount = Len(run[r].allTimes)
                    ELSE /\ run'[r].errors = run[r].errors + 1
                         /\ run'[r].totalReqs = run[r].totalReqs + 1
                         /\ run'[r].allTimes = run[r].allTimes]_vars

\* All the requests of tick 0 threw and the loop is in the fan-out of tick 1.
C15_Witness ==
    \E r \in Runs :
        /\ run[r].pc = "join" /\ run[r].t = 1 /\ ~cancelRef
        /\ hist[r].failed = 2 /\ run[r].errors = 2 /\ run[r].totalReqs = 2
        /\ run[r].allTimes = <<>>

\* getUsers has been called for tick run[1].t of the configuration.
Called == run[1].pc = "tick"

SumUsers(r) == Sum([k \in 1..run[r].duration |-> Users(r, k - 1)])

\* C17: in a run that the user does not cancel, the summary's totalRequests
\* is the sum of activeUsers(t) over the ticks 0..duration-1 and the sample
\* of each tick has the number of requests issued in the tick as its
\* activeUsers; with 5 users, 3 seconds, the fixed profile and no request
\* throwing: 3 samples of 5 active users, 15 requests, no error, rps 5.00.
\* Stated of a run that is the only one started.
C17_TotalIsSumOfUsers ==
    \A r \in Runs :
        (Done(r) /\ OnlyRun(r) /\ ~hist[r].userStop)
            => /\ summary.totalRequests = SumUsers(r)
               /\ Len(metrics) = run[r].duration
               /\ \A k \in 1..Len(metrics) :
                      metrics[k].activeUsers = Users(r, k - 1)
               /\ (/\ run[r].duration = 3 /\ run[r].maxUsers = 5
                   /\ run[r].profile = "fixed" /\ hist[r].failed = 0)
                      => /\ Len(metrics) = 3
                         /\ \A k \in 1..3 : metrics[k].activeUsers = 5
                         /\ summary.totalRequests = 15
                         /\ summary.errorCount = 0
                         /\ summary.rps = 500

\* The run of 5 users for 3 seconds, fixed profile, has ended and none of
\* its requests threw.
ExampleRun ==
    /\ Done(1) /\ run[1].duration = 3 /\ run[1].maxUsers = 5
    /\ run[1].profile = "fixed" /\ hist[1].failed = 0

\* C18: the rampup profile returns max(1, floor(maxUsers * min(1, (t + 1) /
\* rampUp))) when rampUp > 0 and maxUsers when rampUp <= 0, the formula
\* taken in exact arithmetic: the floor is the integer f with
\* f * rampUp <= maxUsers * min(rampUp, t + 1) < (f + 1) * rampUp. With
\* maxUsers = 100 and rampUp = 5 it returns 20 at tick 0 and 100 at ticks 4
\* and 10.
C18_RampupFormula ==
    (Called /\ testProfile = "rampup")
        => LET t == run[1].t
               n == run[1].activeUsers
           IN  /\ rampUp <= 0 => n = concurrentUsers
               /\ rampUp > 0 =>
                      \E f \in 0..concurrentUsers :
                          /\ f * rampUp <= concurrentUsers * Min2(rampUp, t + 1)
                          /\ concurrentUsers * Min2(rampUp, t + 1)
                                 < (f + 1) * rampUp
                          /\ n = Max2(1, f)
               /\ (concurrentUsers = 100 /\ rampUp = 5 /\ t = 0) => n = 20
               /\ (concurrentUsers = 100 /\ rampUp = 5 /\ t = 4) => n = 100
               /\ (concurrentUsers = 100 /\ rampUp = 5 /\ t = 10) => n = 100

\* C19: the stress profile has 4 stages of length L = floor(duration / 4);
\* at tick t the stage is s = min(3, floor(t / L)) and the result is
\* max(1, floor(maxUsers * (s + 1) / 4)), the ticks after the fourth stage
\* staying in the last stage. Stated in exact arithmetic for every duration
\* with L >= 1, where the quotient t / L is defined. With duration = 40 and
\* maxUsers = 40 the ticks 0..9 give 10, 10..19 give 20, 20..29 give 30 and
\* 30..39 give 40.
C19_StressFormula ==
    (Called /\ testProfile = "stress")
        => LET t == run[1].t
               n == run[1].activeUsers
           IN  /\ \A L \in 1..duration :
                      (4 * L <= duration /\ duration < 4 * L + 4)
                          => \E s \in 0..3 : \E f \in 0..concurrentUsers :
                                 /\ s * L <= t
                                 /\ s < 3 => t < (s + 1) * L
                                 /\ 4 * f <= concurrentUsers * (s + 1)
                                 /\ concurrentUsers * (s + 1) < 4 * f + 4
                                 /\ n = Max2(1, f)
               /\ (duration = 40 /\ concurrentUsers = 40)
                      => /\ t \in 0..9 => n = 10
                         /\ t \in 10..19 => n = 20
                         /\ t \in 20..29 => n = 30
                         /\ t \in 30..39 => n = 40

\* The third stage of the run of 40 users for 40 seconds.
C19_Witness ==
    /\ Called /\ testProfile = "stress"
    /\ duration = 40 /\ concurrentUsers = 40
    /\ run[1].t = 25 /\ run[1].activeUsers = 30

\* A tick after the fourth stage: the last of 43 seconds.
RemainderTick ==
    /\ Called /\ testProfile = "stress"
    /\ duration = 43 /\ concurrentUsers = 40
    /\ run[1].t = 42 /\ run[1].activeUsers = 40

\* C20: the rps of the summary (in hundredths) is the run's totalRequests
\* divided by its configured duration, to the nearest hundredth, whether the
\* loop ran all its ticks or was cancelled early.
C20_RpsOverConfiguredDuration ==
    [][\A r \in Runs :
          LoopExit(r)
              => LET d == run[r].duration
                     total == Sum(hist'[r].joined)
                 IN  /\ summary'.totalRequests = total
                     /\ 2 * (summary'.rps * d - 100 * total) <= d
                     /\ 2 * (100 * total - summary'.rps * d) <= d]_vars

\* A run of 2 seconds stopped by the user after the 2 requests of its first
\* tick: 1.00 requests per second of the configured duration, 2.00 per
\* second of the ticks executed.
C20_Witness ==
    /\ summary # NoSummary
    /\ summary.totalRequests = 2 /\ summary.rps = 100
    /\ \E r \in Runs :
           /\ Done(r) /\ OnlyRun(r) /\ hist[r].userStop
           /\ run[r].duration = 2 /\ hist[r].ticks = <<0>>

\* C21: the spike profile returns maxUsers at the ticks t with
\* mid - 1 <= t < mid - 1 + max(3, floor(duration * 0.2)), mid =
\* floor(duration / 2), and max(1, floor(maxUsers * 0.1)) at every other
\* tick, the floors taken in exact arithmetic (floor(duration / 5) and
\* floor(maxUsers / 10)).
C21_SpikeFormula ==
    (Called /\ testProfile = "spike")
        => LET t == run[1].t
               n == run[1].activeUsers
               mid == duration \div 2
               window == Max2(3, duration \div 5)
           IN  IF mid - 1 <= t /\ t < mid - 1 + window
               THEN n = concurrentUsers
               ELSE n = Max2(1, concurrentUsers \div 10)

\* The first tick of the burst of 40 seconds with 100 users: the tick before
\* the midpoint.
C21_Witness ==
    /\ Called /\ testProfile = "spike"
    /\ duration = 40 /\ concurrentUsers = 100
    /\ run[1].t = 19 /\ run[1].activeUsers = 100

\* The tick after the burst of 8 ticks: back at the baseline of 10 users.
AfterBurst ==
    /\ Called /\ testProfile = "spike"
    /\ duration = 40 /\ concurrentUsers = 100
    /\ run[1].t = 27 /\ run[1].activeUsers = 10

\* C22: the custom profile and the rampup profile return the same value for
\* every tick, duration, maxUsers and rampUp.
C22_CustomIsRampup ==
    Called =>
        /\ testProfile = "custom"
               => run[1].activeUsers =
                      rampupUsers(run[1].t, duration, concurrentUsers, rampUp)
        /\ testProfile = "rampup"
               => run[1].activeUsers =
                      customUsers(run[1].t, duration, concurrentUsers, rampUp)

\* The custom profile in the middle of a ramp: 90 users over 10 seconds, at
\* tick 6.
C22_Witness ==
    /\ Called /\ testProfile = "custom"
    /\ concurrentUsers = 90 /\ rampUp = 10
    /\ run[1].t = 6 /\ run[1].activeUsers = 62

\* buildFetchOptions has returned the options run[1].fetchOpts.
Built ==
    /\ run[1].pc = "built"
    /\ run[1].fetchOpts # NoOptions /\ run[1].fetchOpts # ThrownOptions

\* The headers of the materialized request.
SentHeaders == run[1].fetchOpts.headers

\* The materialized request has the header key with the value v.
HasHeader(key, v) == key \in DOMAIN SentHeaders /\ SentHeaders[key] = v

\* The value the caller has set for the header key: that of the last
\* enabled pair with the key, the empty string when there is none.
CallerHeader(key) ==
    LET js == {j \in 1..Len(request.headers) :
                  request.headers[j].enabled /\ request.headers[j].key = key}
    IN  IF js = {} THEN <<>>
        ELSE request.headers[CHOOSE j \in js : \A k \in js : k <= j].value

\* The request definition sends a body of kind raw.
RawBody ==
    /\ request.method \notin {"GET", "HEAD"}
    /\ request.bodyType = "raw" /\ request.bodyContent # <<>>

\* The request definition sends a body of kind json.
JsonBody ==
    /\ request.method \notin {"GET", "HEAD"}
    /\ request.bodyType = "json" /\ request.bodyContent # <<>>

\* C26: for method GET or HEAD the materialized request carries no body,
\* for every body kind and every body content.
C26_NoBodyOnGetHead ==
    (Built /\ request.method \in {"GET", "HEAD"})
        => run[1].fetchOpts.body = NoBody

\* A HEAD request materialized from a definition with a json body text.
C26_Witness ==
    /\ Built /\ request.method = "HEAD"
    /\ request.bodyType = "json" /\ request.bodyContent # <<>>
    /\ run[1].fetchOpts.body = NoBody

\* A GET request materialized from a definition of body kind form data.
GetWithFormData ==
    /\ Built /\ request.method = "GET" /\ request.bodyType = "formdata"
    /\ run[1].fetchOpts.body = NoBody

\* The url and the options materialized from the request definition req.
Materialized(req) == [url |-> buildUrl(req), opts |-> buildFetchOptions(req)]

\* C23: the url and the fetch options of a run are those materialized from
\* the request definition as it was when the run started: the run holds them
\* unchanged while its loop is in progress, and every fetch call of every
\* tick is given them, whatever the user edits after the start.
C23_TemplatePerRun ==
    \A r \in Runs :
        /\ Active(run[r]) => Template(run[r]) = Materialized(hist[r].definition)
        /\ \A x \in hist[r].sent : x = Materialized(hist[r].definition)

\* A run in its second tick, the definition edited since its start, every
\* request of both ticks sent with the template of the start.
C23_Witness ==
    \E r \in Runs :
        /\ run[r].pc = "join" /\ run[r].t = 1
        /\ request # hist[r].definition
        /\ Materialized(request) # Materialized(hist[r].definition)
        /\ hist[r].sent = {Materialized(hist[r].definition)}

\* Two runs that sent different templates, each its own.
TwoTemplates ==
    /\ hist[1].sent # {} /\ hist[2].sent # {}
    /\ hist[1].sent # hist[2].sent

\* A runTest call that ended with the exception of btoa.
AbortedRun == \E r \in Runs : run[r].pc = "aborted" /\ isRunning

\* What C24 says of the materialized request.
ContentTypeRule ==
    /\ JsonBody
           => HasHeader(ContentType,
                        IF CallerHeader(ContentType) # <<>>
                        THEN CallerHeader(ContentType) ELSE ApplicationJson)
    /\ RawBody
           => (ContentType \in DOMAIN SentHeaders
                   => HasHeader(ContentType, CallerHeader(ContentType)))

\* C24: the materialized request of a definition with a json body (method
\* not GET or HEAD, body text not empty) has the header Content-Type:
\* application/json when the caller has set no Content-Type, also when no
\* header pair is enabled and no auth is configured, and the caller's value
\* when one is set; with a raw body it has no Content-Type but the caller's.
C24_JsonContentType == Built => ContentTypeRule

\* The rule holds of every materialized request to which a header object is
\* attached: one with an enabled header pair or an auth header.
ContentTypeWhenAttached ==
    (Built /\ SentHeaders # NoHeaders) => ContentTypeRule

\* A POST with a json body, an API key and no Content-Type of the caller:
\* application/json is sent.
DefaultedContentType ==
    /\ Built /\ JsonBody /\ CallerHeader(ContentType) = <<>>
    /\ request.authType = "apikey"
    /\ HasHeader(ContentType, ApplicationJson)

\* The index in the base64 alphabet of the character c.
Base64Index(c) ==
    IF c \in 65..90 THEN c - 65
    ELSE IF c \in 97..122 THEN c - 97 + 26
    ELSE IF c \in 48..57 THEN c - 48 + 52
    ELSE IF c = 43 THEN 62 ELSE 63

\* The bytes that the base64 text b stands for.
RECURSIVE Base64Decoded(_)
Base64Decoded(b) ==
    IF Len(b) < 4 THEN <<>>
    ELSE LET i1 == Base64Index(b[1])
             i2 == Base64Index(b[2])
             i3 == Base64Index(b[3])
             i4 == Base64Index(b[4])
             b1 == i1 * 4 + (i2 \div 16)
             b2 == (i2 % 16) * 16 + (i3 \div 4)
             b3 == (i3 % 4) * 64 + i4
         IN  IF b[3] = EqualsSign THEN <<b1>>
             ELSE IF b[4] = EqualsSign THEN <<b1, b2>>
             ELSE <<b1, b2, b3>> \o Base64Decoded(SubSeq(b, 5, Len(b)))

\* The caller has set the header key: an enabled pair has it.
CallerSet(key) ==
    \E j \in 1..Len(request.headers) :
        request.headers[j].enabled /\ request.headers[j].key = key

\* The materialized request has the header key only as the caller set it.
OnlyCallers(key) ==
    key \in DOMAIN SentHeaders
        => CallerSet(key) /\ SentHeaders[key] = CallerHeader(key)

\* What C25 says of the materialized request of a definition with a
\* credential.
AuthRule ==
    LET kind == IF request.authToken = <<>> THEN "none"
                ELSE request.authType
    IN  /\ kind = "bearer"
               => /\ HasHeader(Authorization,
                               BearerPrefix \o request.authToken)
                  /\ OnlyCallers(XApiKey)
        /\ kind = "basic"
               => /\ Authorization \in DOMAIN SentHeaders
                  /\ LET v == SentHeaders[Authorization]
                         n == Len(BasicPrefix)
                     IN  /\ Len(v) = n + 4 * ((Len(request.authToken) + 2) \div 3)
                         /\ SubSeq(v, 1, n) = BasicPrefix
                         /\ Base64Decoded(SubSeq(v, n + 1, Len(v))) =
                                request.authToken
                  /\ OnlyCallers(XApiKey)
        /\ kind = "apikey"
               => /\ HasHeader(XApiKey, request.authToken)
                  /\ OnlyCallers(Authorization)
        /\ kind = "none"
               => OnlyCallers(Authorization) /\ OnlyCallers(XApiKey)

\* C25: the materialization applies the auth strategy of the auth kind:
\* bearer adds Authorization: Bearer <token>, basic adds Authorization: Basic
\* <base64(credential)>, api-key adds X-API-Key: <token>, none adds no
\* header, and none of them adds both headers: the other one is there only
\* as the caller set it. Stated of every definition whose url is built.
C25_AuthStrategy ==
    (run[1].pc = "built" /\ run[1].fetchUrl # Thrown)
        => run[1].fetchOpts # ThrownOptions /\ AuthRule

\* The rule holds of every request that is materialized.
AuthWhenMaterialized == Built => AuthRule

\* Basic credentials "u:p": Authorization: Basic dTpw.
BasicHeader ==
    /\ Built /\ request.authType = "basic" /\ request.authToken = UserPass
    /\ HasHeader(Authorization, BasicPrefix \o <<100, 84, 112, 119>>)

\* The statistics of run[1]'s tick have been computed.
Computed == run[1].pc = "computed"

\* The elements of the list s.
Elements(s) == {s[i] : i \in 1..Len(s)}

\* C28: for a latency list of length n >= 1 the indices floor(n * 0.95) and
\* floor(n * 0.99) are within 0..n-1, p95 and p99 are elements of the list,
\* and min <= p95 <= p99 <= max, in the sample of a tick (over the latencies
\* the sample is computed from) and in the summary.
C28_PercentilesInRange ==
    Computed =>
        LET all == run[1].allTimes
            tick == Valid(run[1].results)
            s == metrics[1]
        IN  /\ \A n \in {Len(all), Len(tick)} : \A pct \in {95, 99} :
                   n >= 1 => PercentileIndex(n, pct) \in 0..(n - 1)
            /\ Len(all) >= 1
                   => /\ summary.p95 \in Elements(all)
                      /\ summary.p99 \in Elements(all)
                      /\ summary.minResponseTime <= summary.p95
                      /\ summary.p95 <= summary.p99
                      /\ summary.p99 <= summary.maxResponseTime
                      /\ \A x \in Elements(all) :
                             /\ summary.minResponseTime <= x
                             /\ x <= summary.maxResponseTime
            /\ Len(tick) >= 1
                   => /\ s.p95 \in Elements(tick) /\ s.p99 \in Elements(tick)
                      /\ s.p95 <= s.p99
                      /\ \E lo, hi \in Elements(tick) :
                             lo <= s.p95 /\ s.p99 <= hi

\* 101 latencies that fall from 1010 to 10 ms: p95 is the 96th and p99 the
\* 100th of the sorted list, below the maximum.
C28_Witness ==
    /\ Computed /\ Len(run[1].allTimes) = 101
    /\ summary.minResponseTime = 10 /\ summary.p95 = 960
    /\ summary.p99 = 1000 /\ summary.maxResponseTime = 1010
    /\ metrics[1].p95 = 960 /\ metrics[1].p99 = 1000

\* In every summary and in every sample of the runs p95 <= p99, and the
\* summary has min <= p95 and p99 <= max.
PercentilesOrdered ==
    /\ \A k \in 1..Len(metrics) : metrics[k].p95 <= metrics[k].p99
    /\ summary # NoSummary
           => /\ summary.minResponseTime <= summary.p95
              /\ summary.p95 <= summary.p99
              /\ summary.p99 <= summary.maxResponseTime

\* The last request of run r's tick settles in this step: Promise.all
\* resumes and the sample of the tick is appended.
JoinStep(r) ==
    run[r].pc = "join" /\ Len(hist'[r].joined) = Len(hist[r].joined) + 1

\* The latency of the request that settles in this step, if it resolves.
LastLatency(r) ==
    IF hist'[r].failed = hist[r].failed THEN <<now - run[r].tickStart>>
    ELSE <<>>

\* The latencies of the requests of run r's tick that resolved, the one
\* that resolves in this step included.
TickLatencies(r) ==
    SelectSeq(run[r].results, LAMBDA x : x >= 0) \o LastLatency(r)

\* allTimes of run r at the end of this step.
AllLatencies(r) == run[r].allTimes \o LastLatency(r)

\* The average, p95 and p99 of the latency list lat by the rule of C27.
RuleStatistics(lat) ==
    LET sorted == SortAsc(lat)
        n == Len(sorted)
    IN  [avg |-> IF n > 0 THEN Round(Sum(sorted), n) ELSE 0,
         p95 |-> IF n > 0 THEN sorted[((n * 95) \div 100) + 1] ELSE 0,
         p99 |-> IF n > 0 THEN sorted[((n * 99) \div 100) + 1] ELSE 0]

\* The sample appended in this step has the statistics of the list lat.
SampleOf(lat) ==
    LET s == metrics'[Len(metrics')]
    IN  [avg |-> s.avgResponseTime, p95 |-> s.p95, p99 |-> s.p99] =
            RuleStatistics(lat)

\* The summary written in this step has the statistics of the list lat.
SummaryOf(lat) ==
    [avg |-> summary'.avgResponseTime, p95 |-> summary'.p95,
     p99 |-> summary'.p99] = RuleStatistics(lat)

\* C27: the sample of a tick has the average, the p95 and the p99 of the
\* latencies of the requests of that tick that resolved: the values at the
\* indices floor(n * 0.95) and floor(n * 0.99) of the sorted list of the n
\* latencies, and 0 for all three when no request of the tick resolved; the
\* summary has the same statistics of the latencies of the whole run.
C27_TickStatistics ==
    [][\A r \in Runs :
          JoinStep(r)
              => /\ SampleOf(TickLatencies(r))
                 /\ LoopExit(r) => SummaryOf(AllLatencies(r))]_vars

\* The same of the ticks all of whose latencies are above 0 ms.
C27_PositiveLatencies ==
    [][\A r \in Runs :
          (JoinStep(r) /\ \A i \in 1..Len(TickLatencies(r)) :
                              TickLatencies(r)[i] > 0)
              => /\ SampleOf(TickLatencies(r))
                 /\ LoopExit(r) => SummaryOf(AllLatencies(r))]_vars

\* The results of run r's tick at the end of this step.
FullResults(r) ==
    [i \in 1..Len(run[r].results) |->
        IF run[r].results[i] # Pending THEN run[r].results[i]
        ELSE IF LastLatency(r) = <<>> THEN Failed ELSE LastLatency(r)[1]]

\* The last k elements of the list s.
Suffix(s, k) == SubSeq(s, Len(s) - k + 1, Len(s))

\* C29: the latencies the statistics of a tick are computed over are the
\* latencies the tick has added to the full-run list, a latency of 0 ms
\* included: the per-tick lists together are the full-run list.
C29_SameLatencies ==
    [][\A r \in Runs :
          JoinStep(r)
              => SortAsc(Valid(FullResults(r))) =
                     SortAsc(Suffix(AllLatencies(r),
                                    Len(TickLatencies(r))))]_vars

\* The same of the ticks all of whose latencies are above 0 ms.
C29_PositiveLatencies ==
    [][\A r \in Runs :
          (JoinStep(r) /\ \A i \in 1..Len(TickLatencies(r)) :
                              TickLatencies(r)[i] > 0)
              => SortAsc(Valid(FullResults(r))) =
                     SortAsc(Suffix(AllLatencies(r),
                                    Len(TickLatencies(r))))]_vars

\* C30: while the component reports not running no run loop is in progress
\* (no request of any run is in flight, no loop is suspended in a join or
\* in the sleep), and no step taken while it reports not running appends a
\* sample or writes a summary: after a stop by the user, after the elapsed
\* timer has stopped the test, and after the unmount.
C30_QuietWhenNotRunning ==
    /\ [](~isRunning => \A r \in Runs : ~Active(run[r]))
    /\ [][(~isRunning /\ ~isRunning')
              => metrics' = metrics /\ summary' = summary]_vars

\* Not running after the loop of the only run has ended by itself.
EndedRun ==
    /\ ~isRunning
    /\ \E r \in Runs : Done(r) /\ OnlyRun(r) /\ ~hist[r].cancelReq

====
